---------------------------- MODULE Spec2Model ----------------------------
(***************************************************************************)
(* Model of the numeric code of roatienza/computer-vision:                 *)
(*   detection/ssd/layer_utils.py   anchor sizes and boxes, box format     *)
(*                                  conversions, IoU, ground-truth data    *)
(*   unsupervised/iic/keras/iic/iic.py   IIC evaluation, weight saving     *)
(*                                  and loading, the main program          *)
(*                                                                         *)
(* Arithmetic.  numpy computes in float64.  The model computes exactly:    *)
(* a number is r + s * sqrt(rad) with r, s, rad rationals, which is closed *)
(* under every operation the box code applies (sums, differences, halves,  *)
(* products with a rational or a square root, quotients by one).  Rounding *)
(* of float64 is not modelled.                                             *)
(***************************************************************************)
EXTENDS Integers, Sequences, FiniteSets, TLC

VARIABLES
    pc,          \* which call of the modelled program has run
    boxes,       \* argument of centroid2minmax / minmax2centroid
    converted,   \* array returned by the first conversion
    restored,    \* array returned by the second conversion
    boxes1,      \* iou(): first argument, m boxes
    boxes2,      \* iou(): second argument, n boxes
    iou_out,     \* iou(): returned m-by-n matrix
    anchor_args, \* anchor_sizes / anchor_boxes: the arguments
    sizes_out,   \* anchor_sizes(): returned list
    anchors_out, \* anchor_boxes(): returned array
    gt_args,     \* get_gt_data(): iou matrix, labels, threshold
    gt_out,      \* get_gt_data(): gt_class, gt_offset, gt_mask
    iic          \* the IIC object and its main program

vars == <<pc, boxes, converted, restored, boxes1, boxes2, iou_out,
          anchor_args, sizes_out, anchors_out, gt_args, gt_out, iic>>

None == "None"

-----------------------------------------------------------------------------
(* Rationals <<n, d>>, d > 0, in lowest terms.                             *)

Abs(x) == IF x < 0 THEN -x ELSE x

RECURSIVE GCD(_, _)
GCD(a, b) == IF b = 0 THEN a ELSE GCD(b, a % b)

Q(n, d) ==
    LET g == GCD(Abs(n), Abs(d))
        sg == IF d < 0 THEN -1 ELSE 1
    IN  <<(sg * n) \div g, (sg * d) \div g>>

QInt(n) == <<n, 1>>
QAdd(x, y) == Q(x[1] * y[2] + y[1] * x[2], x[2] * y[2])
QNeg(x) == <<-x[1], x[2]>>
QSub(x, y) == QAdd(x, QNeg(y))
QMul(x, y) == Q(x[1] * y[1], x[2] * y[2])
QDiv(x, y) == Q(x[1] * y[2], x[2] * y[1])
QLess(x, y) == x[1] * y[2] < y[1] * x[2]
QSign(x) == IF x[1] > 0 THEN 1 ELSE IF x[1] < 0 THEN -1 ELSE 0

RECURSIVE ISqrtIn(_, _, _)
ISqrtIn(n, lo, hi) ==
    \* largest k in lo..hi with k * k <= n
    IF lo = hi THEN lo
    ELSE LET mid == (lo + hi + 1) \div 2
         IN  IF mid * mid <= n THEN ISqrtIn(n, mid, hi)
             ELSE ISqrtIn(n, lo, mid - 1)

ISqrt(n) == ISqrtIn(n, 0, n)
IsSquare(n) == ISqrt(n) * ISqrt(n) = n

-----------------------------------------------------------------------------
(* Numbers r + s * sqrt(rad).  s = <<0, 1>> is written with rad = <<0, 1>>. *)

Zero == QInt(0)
Num(r, s, rad) ==
    IF s = Zero \/ rad = Zero THEN [r |-> r, s |-> Zero, rad |-> Zero]
    ELSE [r |-> r, s |-> s, rad |-> rad]

NQ(q) == Num(q, Zero, Zero)
NInt(n) == NQ(QInt(n))
NFrac(n, d) == NQ(Q(n, d))
IsRational(x) == x.s = Zero

\* math.sqrt / np.sqrt of a rational q >= 0
NSqrt(q) ==
    IF IsSquare(q[1]) /\ IsSquare(q[2])
    THEN NQ(Q(ISqrt(q[1]), ISqrt(q[2])))
    ELSE Num(Zero, QInt(1), q)

\* x + y; the code adds a root only to a rational or to a root of the same
\* radicand
NAdd(x, y) ==
    Num(QAdd(x.r, y.r), QAdd(x.s, y.s), IF IsRational(x) THEN y.rad ELSE x.rad)

NNeg(x) == Num(QNeg(x.r), QNeg(x.s), x.rad)
NSub(x, y) == NAdd(x, NNeg(y))

\* x * y; at least one factor rational, or both pure roots
NMul(x, y) ==
    IF IsRational(x) THEN Num(QMul(x.r, y.r), QMul(x.r, y.s), y.rad)
    ELSE IF IsRational(y) THEN Num(QMul(x.r, y.r), QMul(x.s, y.r), x.rad)
    ELSE IF x.rad = y.rad THEN NQ(QMul(QMul(x.s, y.s), x.rad))
    ELSE LET root == NSqrt(QMul(x.rad, y.rad))
         IN  Num(QMul(QMul(x.s, y.s), root.r), QMul(QMul(x.s, y.s), root.s),
                 root.rad)

\* x / y; y a nonzero rational or a pure root
NDiv(x, y) ==
    IF IsRational(y) THEN Num(QDiv(x.r, y.r), QDiv(x.s, y.r), x.rad)
    ELSE NMul(x, Num(Zero, QDiv(QInt(1), QMul(y.s, y.rad)), y.rad))

NHalf(x) == NMul(NFrac(1, 2), x)

\* sign of r + s * sqrt(rad)
NSign(x) ==
    IF IsRational(x) THEN QSign(x.r)
    ELSE IF QSign(x.r) = QSign(x.s) \/ QSign(x.r) = 0 THEN QSign(x.s)
    ELSE LET r2 == QMul(x.r, x.r)
             s2 == QMul(QMul(x.s, x.s), x.rad)
         IN  IF QLess(s2, r2) THEN QSign(x.r)
             ELSE IF QLess(r2, s2) THEN QSign(x.s) ELSE 0

NLess(x, y) == NSign(NSub(x, y)) < 0

-----------------------------------------------------------------------------
(* Box format conversions.  An array is a sequence of rows; a row is a     *)
(* tuple whose entries 1..4 are the code's columns 0..3 (further columns   *)
(* are copied).                                                            *)

\* the same assignments made on the argument itself (no np.copy)
Centroid2MinmaxRowInPlace(row) ==
    LET m0 == [row EXCEPT ![1] = NSub(row[1], NHalf(row[3]))]
        m1 == [m0 EXCEPT ![2] = NAdd(m0[1], NHalf(m0[3]))]
        m2 == [m1 EXCEPT ![3] = NSub(m1[2], NHalf(m1[4]))]
        m3 == [m2 EXCEPT ![4] = NAdd(m2[2], NHalf(m2[4]))]
    IN  m3

\* centroid2minmax on one row: the copy, then the four column assignments,
\* each reading the argument
Centroid2MinmaxRow(row) ==
    LET minmax == row
        m0 == [minmax EXCEPT ![1] = NSub(row[1], NHalf(row[3]))]
        m1 == [m0 EXCEPT ![2] = NAdd(row[1], NHalf(row[3]))]
        m2 == [m1 EXCEPT ![3] = NSub(row[2], NHalf(row[4]))]
        m3 == [m2 EXCEPT ![4] = NAdd(row[2], NHalf(row[4]))]
    IN  m3

centroid2minmax(arr) == [i \in DOMAIN arr |-> Centroid2MinmaxRow(arr[i])]

\* minmax2centroid on one row
Minmax2CentroidRow(row) ==
    LET centroid == row
        c0 == [centroid EXCEPT ![1] = NHalf(NSub(row[2], row[1]))]
        c1 == [c0 EXCEPT ![1] = NAdd(c0[1], row[1])]
        c2 == [c1 EXCEPT ![2] = NHalf(NSub(row[4], row[3]))]
        c3 == [c2 EXCEPT ![2] = NAdd(c2[2], row[3])]
        c4 == [c3 EXCEPT ![3] = NSub(row[2], row[1])]
        c5 == [c4 EXCEPT ![4] = NSub(row[4], row[3])]
    IN  c5

minmax2centroid(arr) == [i \in DOMAIN arr |-> Minmax2CentroidRow(arr[i])]

-----------------------------------------------------------------------------
(* The conversions applied one after the other to an argument array.       *)

Idle == "idle"

MaxNum == 3
MaxDen == 2

BoxValues == {NFrac(n, d) : n \in -1..MaxNum, d \in 1..MaxDen}
BoxRows == [1..4 -> BoxValues]

InitBox ==
    /\ pc = "start"
    /\ boxes \in {<<>>} \cup {<<row>> : row \in BoxRows}
    /\ converted = Idle /\ restored = Idle
    /\ boxes1 = Idle /\ boxes2 = Idle /\ iou_out = Idle
    /\ anchor_args = Idle /\ sizes_out = Idle /\ anchors_out = Idle
    /\ gt_args = Idle /\ gt_out = Idle /\ iic = Idle

\* a call of centroid2minmax: on the argument, or on what minmax2centroid
\* returned
CallCentroid2Minmax ==
    /\ \/ /\ pc = "start"
          /\ converted' = centroid2minmax(boxes)
          /\ pc' = "c2m"
          /\ UNCHANGED restored
       \/ /\ pc = "m2c"
          /\ restored' = centroid2minmax(converted)
          /\ pc' = "m2c_c2m"
          /\ UNCHANGED converted
    /\ UNCHANGED <<boxes, boxes1, boxes2, iou_out, anchor_args, sizes_out,
                   anchors_out, gt_args, gt_out, iic>>

\* a call of minmax2centroid: on the argument, or on what centroid2minmax
\* returned
CallMinmax2Centroid ==
    /\ \/ /\ pc = "start"
          /\ converted' = minmax2centroid(boxes)
          /\ pc' = "m2c"
          /\ UNCHANGED restored
       \/ /\ pc = "c2m"
          /\ restored' = minmax2centroid(converted)
          /\ pc' = "c2m_m2c"
          /\ UNCHANGED converted
    /\ UNCHANGED <<boxes, boxes1, boxes2, iou_out, anchor_args, sizes_out,
                   anchors_out, gt_args, gt_out, iic>>

NextBox == CallCentroid2Minmax \/ CallMinmax2Centroid

SpecBox == InitBox /\ [][NextBox]_vars

-----------------------------------------------------------------------------
(* intersection, union, iou.  Boxes are rows (xmin, xmax, ymin, ymax) with *)
(* integer coordinates; a matrix is a sequence of m rows of n entries.     *)

Max(a, b) == IF a >= b THEN a ELSE b
Min(a, b) == IF a <= b THEN a ELSE b

xmin == 1
xmax == 2
ymin == 3
ymax == 4

intersection(b1, b2) ==
    LET m == Len(b1)
        n == Len(b2)
        boxes1_min == [i \in 1..m |-> [j \in 1..n |-> <<b1[i][xmin], b1[i][ymin]>>]]
        boxes2_min == [i \in 1..m |-> [j \in 1..n |-> <<b2[j][xmin], b2[j][ymin]>>]]
        min_xy == [i \in 1..m |-> [j \in 1..n |->
                     [k \in 1..2 |-> Max(boxes1_min[i][j][k], boxes2_min[i][j][k])]]]
        boxes1_max == [i \in 1..m |-> [j \in 1..n |-> <<b1[i][xmax], b1[i][ymax]>>]]
        boxes2_max == [i \in 1..m |-> [j \in 1..n |-> <<b2[j][xmax], b2[j][ymax]>>]]
        max_xy == [i \in 1..m |-> [j \in 1..n |->
                     [k \in 1..2 |-> Min(boxes1_max[i][j][k], boxes2_max[i][j][k])]]]
        side_lengths == [i \in 1..m |-> [j \in 1..n |->
                     [k \in 1..2 |-> Max(0, max_xy[i][j][k] - min_xy[i][j][k])]]]
    IN  [i \in 1..m |-> [j \in 1..n |->
            side_lengths[i][j][1] * side_lengths[i][j][2]]]

\* union that forgets to take the overlap out
UnionWithOverlap(b1, b2, intersection_areas) ==
    [i \in 1..Len(b1) |-> [j \in 1..Len(b2) |->
        (b1[i][xmax] - b1[i][xmin]) * (b1[i][ymax] - b1[i][ymin])
        + (b2[j][xmax] - b2[j][xmin]) * (b2[j][ymax] - b2[j][ymin])]]

union(b1, b2, intersection_areas) ==
    LET m == Len(b1)
        n == Len(b2)
        areas1 == [i \in 1..m |->
                     (b1[i][xmax] - b1[i][xmin]) * (b1[i][ymax] - b1[i][ymin])]
        boxes1_areas == [i \in 1..m |-> [j \in 1..n |-> areas1[i]]]
        areas2 == [j \in 1..n |->
                     (b2[j][xmax] - b2[j][xmin]) * (b2[j][ymax] - b2[j][ymin])]
        boxes2_areas == [i \in 1..m |-> [j \in 1..n |-> areas2[j]]]
    IN  [i \in 1..m |-> [j \in 1..n |->
            boxes1_areas[i][j] + boxes2_areas[i][j] - intersection_areas[i][j]]]

\* element-wise float division: 0 / 0 is nan, x / 0 is inf
Divide(a, b) ==
    IF b # 0 THEN Q(a, b)
    ELSE IF a = 0 THEN "nan" ELSE IF a > 0 THEN "inf" ELSE "-inf"

iou(b1, b2) ==
    LET intersection_areas == intersection(b1, b2)
        union_areas == union(b1, b2, intersection_areas)
    IN  [i \in 1..Len(b1) |-> [j \in 1..Len(b2) |->
            Divide(intersection_areas[i][j], union_areas[i][j])]]

MaxX == 3
MaxY == 2

\* boxes of positive width and height, and one empty box
IouBoxes ==
    {<<x0, x1, y0, y1>> : x0 \in 0..MaxX, x1 \in 0..MaxX,
                          y0 \in 0..MaxY, y1 \in 0..MaxY}
IouBoxSet ==
    {b \in IouBoxes : b[xmin] < b[xmax] /\ b[ymin] < b[ymax]} \cup {<<0, 0, 0, 0>>}

\* the (m, n) the arguments are drawn with
IouShapes == {<<1, 1>>, <<2, 1>>, <<1, 2>>}

InitIou ==
    /\ pc = "start"
    /\ \E shape \in IouShapes :
          /\ boxes1 \in [1..shape[1] -> IouBoxSet]
          /\ boxes2 \in [1..shape[2] -> IouBoxSet]
    /\ iou_out = Idle
    /\ boxes = Idle /\ converted = Idle /\ restored = Idle
    /\ anchor_args = Idle /\ sizes_out = Idle /\ anchors_out = Idle
    /\ gt_args = Idle /\ gt_out = Idle /\ iic = Idle

CallIou ==
    /\ pc = "start"
    /\ iou_out' = iou(boxes1, boxes2)
    /\ pc' = "iou"
    /\ UNCHANGED <<boxes, converted, restored, boxes1, boxes2, anchor_args,
                   sizes_out, anchors_out, gt_args, gt_out, iic>>

NextIou == CallIou

SpecIou == InitIou /\ [][NextIou]_vars

Positive(b) == b[xmin] < b[xmax] /\ b[ymin] < b[ymax]
OverlapX(a, b) == Min(a[xmax], b[xmax]) - Max(a[xmin], b[xmin])
OverlapY(a, b) == Min(a[ymax], b[ymax]) - Max(a[ymin], b[ymin])
OverlapArea(a, b) == Max(0, OverlapX(a, b)) * Max(0, OverlapY(a, b))
Area(b) == (b[xmax] - b[xmin]) * (b[ymax] - b[ymin])

\* C1: for boxes of positive width and height iou(boxes1, boxes2) is an
\* m-by-n matrix whose entry (i, j) is I / (A1 + A2 - I), I the overlap area
\* of box i of boxes1 and box j of boxes2 and A1, A2 their areas; the entry
\* is 0 when the two boxes touch or are disjoint and 1 when they are equal.
C1_IouFormula ==
    pc = "iou" =>
        /\ Len(iou_out) = Len(boxes1)
        /\ \A i \in 1..Len(boxes1) :
              /\ Len(iou_out[i]) = Len(boxes2)
              /\ \A j \in 1..Len(boxes2) :
                    (Positive(boxes1[i]) /\ Positive(boxes2[j])) =>
                        /\ iou_out[i][j] =
                              Q(OverlapArea(boxes1[i], boxes2[j]),
                                Area(boxes1[i]) + Area(boxes2[j])
                                - OverlapArea(boxes1[i], boxes2[j]))
                        /\ (OverlapX(boxes1[i], boxes2[j]) <= 0
                            \/ OverlapY(boxes1[i], boxes2[j]) <= 0)
                               => iou_out[i][j] = QInt(0)
                        /\ boxes1[i] = boxes2[j] => iou_out[i][j] = QInt(1)

\* a 2-by-1 result with one partial overlap (IoU 1/3) and one box that only
\* touches the other (IoU 0)
C1_Witness ==
    /\ pc = "iou"
    /\ Len(boxes1) = 2 /\ Len(boxes2) = 1
    /\ boxes1[1] = <<0, 2, 0, 1>> /\ boxes2[1] = <<1, 3, 0, 1>>
    /\ boxes1[2] = <<0, 1, 0, 2>>
    /\ iou_out[1][1] = Q(1, 3)
    /\ iou_out[2][1] = QInt(0)

-----------------------------------------------------------------------------
(* get_gt_data.  Row a of the iou matrix is anchor a - 1 of the code,      *)
(* column j is ground-truth box j - 1, and entry c + 1 of a gt_class row   *)
(* is class c.  IoU values and the threshold are in hundredths.            *)

\* the 1.0 the threshold is compared with, in hundredths
One == 100

\* np.argmax(iou, axis=0): per column the first row holding the maximum
ArgmaxLast(mat) ==
    [j \in 1..Len(mat[1]) |->
        CHOOSE a \in 1..Len(mat) :
            /\ \A b \in 1..Len(mat) : mat[b][j] <= mat[a][j]
            /\ \A b \in (a + 1)..Len(mat) : mat[b][j] < mat[a][j]]

ArgmaxAxis0(mat) ==
    [j \in 1..Len(mat[1]) |->
        CHOOSE a \in 1..Len(mat) :
            /\ \A b \in 1..Len(mat) : mat[b][j] <= mat[a][j]
            /\ \A b \in 1..(a - 1) : mat[b][j] < mat[a][j]]

\* every (row, column) of the matrix, in row-major order
Indexes(mat) ==
    LET n == Len(mat[1])
    IN  [p \in 1..(Len(mat) * n) |-> <<((p - 1) \div n) + 1, ((p - 1) % n) + 1>>]

\* np.argwhere(iou >= threshold)
ArgwhereAtLeast(mat, thresh) ==
    LET Test(rc) == mat[rc[1]][rc[2]] >= thresh
    IN  SelectSeq(Indexes(mat), Test)

\* np.argwhere(iou > threshold): the (row, column) pairs, in row-major order
Argwhere(mat, thresh) ==
    LET Test(rc) == mat[rc[1]][rc[2]] > thresh
    IN  SelectSeq(Indexes(mat), Test)

\* the extra (anchor, ground-truth) pairs taken by the threshold
ExtraPairs(mat, thresh) ==
    IF thresh < One THEN Argwhere(mat, thresh) ELSE <<>>

\* maxiou_per_gt after the optional concatenation with extra_anchors
MaxiouPerGt(mat, thresh) ==
    LET iou_gt_thresh == ExtraPairs(mat, thresh)
        extra_anchors == [k \in 1..Len(iou_gt_thresh) |-> iou_gt_thresh[k][1]]
    IN  ArgmaxAxis0(mat) \o extra_anchors

\* labels after the optional concatenation with extra_labels
AllLabels(mat, thresh, lbls) ==
    LET iou_gt_thresh == ExtraPairs(mat, thresh)
        extra_classes == [k \in 1..Len(iou_gt_thresh) |-> iou_gt_thresh[k][2]]
        extra_labels == [k \in 1..Len(extra_classes) |-> lbls[extra_classes[k]]]
    IN  lbls \o extra_labels

Range(seq) == {seq[k] : k \in DOMAIN seq}

\* gt_mask = zeros; gt_mask[maxiou_per_gt] = 1.0
GtMask(m, maxiou_per_gt) ==
    [a \in 1..m |->
        IF a \in Range(maxiou_per_gt) THEN <<1, 1, 1, 1>> ELSE <<0, 0, 0, 0>>]

\* the class generation without the line that clears column 0 of the
\* anchors in maxiou_per_gt
GtClassKeepBackground(m, n_classes, maxiou_per_gt, lbls) ==
    [a \in 1..m |-> [c \in 1..n_classes |->
        IF \E k \in DOMAIN maxiou_per_gt :
               maxiou_per_gt[k] = a /\ lbls[k][5] + 1 = c
        THEN 1
        ELSE IF c = 1 THEN 1 ELSE 0]]

\* gt_class = zeros; gt_class[:, 0] = 1; gt_class[maxiou_per_gt, 0] = 0;
\* gt_class[row_col[:, 0], row_col[:, 1]] = 1.0
GtClass(m, n_classes, maxiou_per_gt, lbls) ==
    LET zeros == [a \in 1..m |-> [c \in 1..n_classes |-> 0]]
        background == [a \in 1..m |-> [zeros[a] EXCEPT ![1] = 1]]
        cleared == [a \in 1..m |->
                      IF a \in Range(maxiou_per_gt)
                      THEN [background[a] EXCEPT ![1] = 0]
                      ELSE background[a]]
        row_col == [k \in DOMAIN maxiou_per_gt |->
                      <<maxiou_per_gt[k], lbls[k][5] + 1>>]
    IN  [a \in 1..m |-> [c \in 1..n_classes |->
            IF <<a, c>> \in Range(row_col) THEN 1 ELSE cleared[a][c]]]

\* the row of the normalized branch for a label and its anchor, both
\* converted by minmax2centroid:
\*   ((cx_gt - cx_a) / w_a) / 0.1, ((cy_gt - cy_a) / h_a) / 0.1,
\*   log(w_gt / w_a) / 0.2,       log(h_gt / h_a) / 0.2
\* kept as the term of its two arguments (log has no exact value)
NormalizedOffset(label, anchor) ==
    [normalized |-> [c \in 1..4 |-> label[c]], anchor |-> anchor]

\* offsets: one row per entry of maxiou_per_gt
Offsets(normalize, anchors, maxiou_per_gt, lbls) ==
    IF normalize
    THEN [k \in DOMAIN maxiou_per_gt |->
            NormalizedOffset(lbls[k], anchors[maxiou_per_gt[k]])]
    ELSE [k \in DOMAIN maxiou_per_gt |->
            [c \in 1..4 |-> lbls[k][c] - anchors[maxiou_per_gt[k]][c]]]

\* gt_offset = zeros; gt_offset[maxiou_per_gt] = offsets.  An anchor that
\* is listed several times keeps the row assigned last (numpy user guide,
\* "Assigning values to indexed arrays").
GtOffset(m, maxiou_per_gt, offsets) ==
    [a \in 1..m |->
        IF a \in Range(maxiou_per_gt)
        THEN LET last == CHOOSE k \in DOMAIN maxiou_per_gt :
                            /\ maxiou_per_gt[k] = a
                            /\ \A l \in DOMAIN maxiou_per_gt :
                                  maxiou_per_gt[l] = a => l <= k
             IN  offsets[last]
        ELSE [c \in 1..4 |-> 0]]

get_gt_data(mat, n_classes, anchors, lbls, normalize, thresh) ==
    LET maxiou_per_gt == MaxiouPerGt(mat, thresh)
        all_labels == AllLabels(mat, thresh, lbls)
        m == Len(mat)
    IN  [gt_class |-> GtClass(m, n_classes, maxiou_per_gt, all_labels),
         gt_offset |-> GtOffset(m, maxiou_per_gt,
                          Offsets(normalize, anchors, maxiou_per_gt, all_labels)),
         gt_mask |-> GtMask(m, maxiou_per_gt)]

-----------------------------------------------------------------------------
(* get_gt_data called on an IoU matrix, labels and a configured threshold. *)

NAnchors == 3

\* n_classes, the default of get_gt_data
NClasses == 6

\* numbers of ground-truth boxes, label classes, IoU values and thresholds
\* (hundredths) the arguments are drawn from
GtCounts == {1, 2}
LabelClasses == {0, 1, 2}
IouValues == {0, 50, 100}
Thresholds == {50, 100, 150}

\* anchor a and the box of label j, in (xmin, xmax, ymin, ymax) format
AnchorBox(a) == <<4 * a - 4, 4 * a, 0, 4>>
LabelBox(j) == <<4 * j - 3, 5 * j, 1, 2 + j>>

GtAnchors == [a \in 1..NAnchors |-> AnchorBox(a)]

InitGt ==
    /\ pc = "start"
    /\ \E n \in GtCounts :
       \E mat \in [1..NAnchors -> [1..n -> IouValues]] :
       \E classes \in [1..n -> LabelClasses] :
       \E thresh \in Thresholds :
       \E normalize \in BOOLEAN :
          gt_args = [iou |-> mat,
                     labels |-> [j \in 1..n |-> LabelBox(j) \o <<classes[j]>>],
                     threshold |-> thresh,
                     normalize |-> normalize]
    /\ gt_out = Idle
    /\ boxes = Idle /\ converted = Idle /\ restored = Idle
    /\ boxes1 = Idle /\ boxes2 = Idle /\ iou_out = Idle
    /\ anchor_args = Idle /\ sizes_out = Idle /\ anchors_out = Idle
    /\ iic = Idle

CallGetGtData ==
    /\ pc = "start"
    /\ gt_out' = get_gt_data(gt_args.iou, NClasses, GtAnchors, gt_args.labels,
                             gt_args.normalize, gt_args.threshold)
    /\ pc' = "gt"
    /\ UNCHANGED <<boxes, converted, restored, boxes1, boxes2, iou_out,
                   anchor_args, sizes_out, anchors_out, gt_args, iic>>

NextGt == CallGetGtData

SpecGt == InitGt /\ [][NextGt]_vars

\* the anchors and ground-truth boxes of the call
GtRows == 1..Len(gt_args.iou)
GtCols == 1..Len(gt_args.labels)

\* anchor a holds the maximum of column j and no lower anchor does
IsArgmax(a, j) ==
    /\ \A b \in GtRows : gt_args.iou[b][j] <= gt_args.iou[a][j]
    /\ \A b \in GtRows : b < a => gt_args.iou[b][j] < gt_args.iou[a][j]

ArgmaxAnchors == {a \in GtRows : \E j \in GtCols : IsArgmax(a, j)}
AboveThreshold == {a \in GtRows : \E j \in GtCols :
                      gt_args.iou[a][j] > gt_args.threshold}
PositiveAnchors == {a \in GtRows : gt_out.gt_mask[a] = <<1, 1, 1, 1>>}
OneHot(c) == [k \in 1..NClasses |-> IF k = c + 1 THEN 1 ELSE 0]
ZeroRow == <<0, 0, 0, 0>>
ClassesAreObjects ==
    \A j \in GtCols : gt_args.labels[j][5] \in 1..(NClasses - 1)

\* C2: for every ground-truth box j the lowest-index anchor attaining the
\* maximum of column j of the IoU matrix is positive (gt_mask row all ones)
\* and its gt_class entry for the class of label j is 1; a box whose column
\* is all zeros is thereby assigned to the first anchor.
C2_ArgmaxPositive ==
    pc = "gt" =>
        \A j \in GtCols : \A a \in GtRows :
            IsArgmax(a, j) =>
                /\ gt_out.gt_mask[a] = <<1, 1, 1, 1>>
                /\ gt_out.gt_class[a][gt_args.labels[j][5] + 1] = 1
                /\ (\A b \in GtRows : gt_args.iou[b][j] = 0) => a = 1

\* two ground-truth boxes: the second overlaps no anchor and is assigned to
\* the first anchor, the first is assigned to a tie's lower anchor
C2_Witness ==
    /\ pc = "gt"
    /\ Len(gt_args.labels) = 2
    /\ gt_args.iou = <<<<0, 0>>, <<50, 0>>, <<50, 0>>>>
    /\ gt_args.labels[1][5] = 1 /\ gt_args.labels[2][5] = 2
    /\ gt_out.gt_mask = <<<<1, 1, 1, 1>>, <<1, 1, 1, 1>>, <<0, 0, 0, 0>>>>
    /\ gt_out.gt_class[1][3] = 1 /\ gt_out.gt_class[2][2] = 1

\* C3: with a threshold below 1.0 the positive anchors are exactly the
\* arg-max anchors together with the anchors whose IoU with some
\* ground-truth box is strictly above the threshold; with a threshold of
\* 1.0 or more they are exactly the arg-max anchors.
C3_PositiveSet ==
    pc = "gt" =>
        PositiveAnchors =
            IF gt_args.threshold < One
            THEN ArgmaxAnchors \cup AboveThreshold
            ELSE ArgmaxAnchors

\* threshold 0.5: the first anchor is the arg-max, the second is positive
\* only through the threshold, the third equals the threshold and is not
C3_Witness ==
    /\ pc = "gt"
    /\ gt_args.threshold = 50
    /\ gt_args.iou = <<<<100>>, <<100>>, <<50>>>>
    /\ PositiveAnchors = {1, 2}
    /\ ArgmaxAnchors = {1}

\* C9: an anchor that is neither an arg-max anchor nor above the threshold
\* is background: gt_class row one-hot at class 0, gt_mask row and
\* gt_offset row all zeros; and when every label's class is in
\* 1..n_classes-1 every positive anchor has gt_class[anchor, 0] = 0.
C9_Background ==
    pc = "gt" =>
        /\ \A a \in GtRows :
              (a \notin ArgmaxAnchors /\ a \notin AboveThreshold) =>
                  /\ gt_out.gt_class[a] = OneHot(0)
                  /\ gt_out.gt_mask[a] = <<0, 0, 0, 0>>
                  /\ gt_out.gt_offset[a] = ZeroRow
        /\ ClassesAreObjects =>
              \A a \in PositiveAnchors : gt_out.gt_class[a][1] = 0

\* one background anchor beside two positive ones, all labels of object
\* classes
C9_Witness ==
    /\ pc = "gt"
    /\ ClassesAreObjects
    /\ Len(gt_args.labels) = 2
    /\ PositiveAnchors = {1, 3}
    /\ gt_out.gt_class[2] = OneHot(0)
    /\ gt_out.gt_offset[2] = ZeroRow
    /\ gt_out.gt_offset[1] # ZeroRow
    /\ gt_out.gt_class[1][1] = 0 /\ gt_out.gt_class[3][1] = 0

\* C10: when every label's class is in 1..n_classes-1, every row of
\* gt_class is a one-hot vector, also for an anchor assigned to several
\* ground-truth boxes of different classes.
C10_RowsOneHot ==
    (pc = "gt" /\ ClassesAreObjects) =>
        \A a \in GtRows : \E c \in 0..(NClasses - 1) :
            gt_out.gt_class[a] = OneHot(c)

\* ground-truth box j is assigned to anchor a: a is the arg-max anchor of j,
\* or the IoU of a and j is above a threshold that is below 1.0
Assigned(a, j) ==
    \/ IsArgmax(a, j)
    \/ /\ gt_args.threshold < One
       /\ gt_args.iou[a][j] > gt_args.threshold

\* among the boxes assigned to anchor a, none has a higher IoU with a than j
BestAssigned(a, j) ==
    /\ Assigned(a, j)
    /\ \A i \in GtCols : Assigned(a, i) => gt_args.iou[a][i] <= gt_args.iou[a][j]

\* (xmin, xmax, ymin, ymax) of ground-truth box j minus those of anchor a
BoxMinusAnchor(a, j) ==
    [c \in 1..4 |-> gt_args.labels[j][c] - GtAnchors[a][c]]

\* C11: with normalize=False, the gt_offset row of every positive anchor a
\* equals (xmin, xmax, ymin, ymax) of a ground-truth box assigned to a minus
\* those of anchor a, and when several boxes are assigned to a the box is
\* one that has the highest IoU with a among them.
C11_OffsetFromBestIou ==
    (pc = "gt" /\ ~gt_args.normalize) =>
        \A a \in PositiveAnchors : \E j \in GtCols :
            /\ BestAssigned(a, j)
            /\ gt_out.gt_offset[a] = BoxMinusAnchor(a, j)

-----------------------------------------------------------------------------
(* anchor_sizes and anchor_boxes.  Entry i + 1 of a sequence is the code's *)
(* entry i.                                                                *)

\* np.linspace(start, stop, num, endpoint=False)
LinspaceNoEndpoint(start, stop, num) ==
    LET step == NDiv(NSub(stop, start), NInt(num))
    IN  [i \in 1..num |-> NAdd(start, NMul(NInt(i - 1), step))]

\* np.linspace(start, stop, num): num samples, the last one being stop
Linspace(start, stop, num) ==
    IF num = 1 THEN <<start>>
    ELSE LET step == NDiv(NSub(stop, start), NInt(num - 1))
         IN  [i \in 1..num |->
                IF i = num THEN stop
                ELSE NAdd(start, NMul(NInt(i - 1), step))]

anchor_sizes(n_layers) ==
    LET s == Linspace(NFrac(2, 10), NFrac(9, 10), n_layers + 1)
    IN  [i \in 1..(Len(s) - 1) |-> <<s[i], NSqrt(NMul(s[i], s[i + 1]).r)>>]

\* boxes[..., 0] = cy_grid, boxes[..., 1] = cx_grid: the assignment the
\* code has commented out
CentroidBoxesSwapped(cx_grid, cy_grid, width_height) ==
    [r \in DOMAIN cx_grid |-> [c \in DOMAIN cx_grid[r] |->
        [k \in DOMAIN width_height |->
            <<cy_grid[r][c], cx_grid[r][c], width_height[k][1], width_height[k][2]>>]]]

\* boxes = zeros((feature_height, feature_width, n_boxes, 4)), then
\* boxes[..., 0] = cx_grid, boxes[..., 1] = cy_grid,
\* boxes[..., 2] = width_height[:, 0], boxes[..., 3] = width_height[:, 1]
CentroidBoxes(cx_grid, cy_grid, width_height) ==
    [r \in DOMAIN cx_grid |-> [c \in DOMAIN cx_grid[r] |->
        [k \in DOMAIN width_height |->
            <<cx_grid[r][c], cy_grid[r][c], width_height[k][1], width_height[k][2]>>]]]

anchor_boxes(feature_shape, image_shape, index, n_layers, aspect_ratios) ==
    LET sizes == anchor_sizes(n_layers)[index + 1]
        n_boxes == Len(aspect_ratios) + Len(sizes) - 1
        image_height == NInt(image_shape[1])
        image_width == NInt(image_shape[2])
        feature_height == feature_shape[1]
        feature_width == feature_shape[2]
        norm_height == NMul(image_height, sizes[1])
        norm_width == NMul(image_width, sizes[1])
        by_ratio == [k \in DOMAIN aspect_ratios |->
                       <<NMul(norm_width, NSqrt(aspect_ratios[k])),
                         NDiv(norm_height, NSqrt(aspect_ratios[k]))>>]
        by_size == [k \in 1..(Len(sizes) - 1) |->
                       <<NMul(image_width, sizes[k + 1]),
                         NMul(image_height, sizes[k + 1])>>]
        width_height == by_ratio \o by_size
        grid_width == NDiv(image_width, NInt(feature_width))
        grid_height == NDiv(image_height, NInt(feature_height))
        cx == Linspace(NHalf(grid_width),
                       NMul(NSub(NInt(feature_width), NFrac(1, 2)), grid_width),
                       feature_width)
        cy == Linspace(NHalf(grid_height),
                       NMul(NSub(NInt(feature_height), NFrac(1, 2)), grid_height),
                       feature_height)
        \* np.meshgrid(cx, cy)
        cx_grid == [r \in 1..feature_height |-> [c \in 1..feature_width |-> cx[c]]]
        cy_grid == [r \in 1..feature_height |-> [c \in 1..feature_width |-> cy[r]]]
        centroid == CentroidBoxes(cx_grid, cy_grid, width_height)
        minmax == [r \in DOMAIN centroid |-> [c \in DOMAIN centroid[r] |->
                     centroid2minmax(centroid[r][c])]]
    IN  \* np.expand_dims(boxes, axis=0)
        <<minmax>>

MaxLayers == 3
MaxFeature == 3

\* image sides and aspect-ratio tuples the arguments are drawn from
ImageSides == {6, 10}
AspectRatios == {<<Q(1, 1), Q(2, 1), Q(1, 2)>>, <<Q(1, 1), Q(4, 1)>>, <<>>}

InitAnchor ==
    /\ pc = "start"
    /\ \E n_layers \in 0..MaxLayers :
       \E index \in 0..Max(n_layers - 1, 0) :
       \E fh \in 1..MaxFeature, fw \in 1..MaxFeature :
       \E ih \in ImageSides, iw \in ImageSides :
       \E ars \in AspectRatios :
          anchor_args = [feature_shape |-> <<fh, fw, 1>>,
                         image_shape |-> <<ih, iw, 3>>,
                         index |-> index,
                         n_layers |-> n_layers,
                         aspect_ratios |-> ars]
    /\ sizes_out = Idle /\ anchors_out = Idle
    /\ boxes = Idle /\ converted = Idle /\ restored = Idle
    /\ boxes1 = Idle /\ boxes2 = Idle /\ iou_out = Idle
    /\ gt_args = Idle /\ gt_out = Idle /\ iic = Idle

CallAnchorSizes ==
    /\ pc = "start"
    /\ sizes_out' = anchor_sizes(anchor_args.n_layers)
    /\ pc' = "sizes"
    /\ UNCHANGED <<boxes, converted, restored, boxes1, boxes2, iou_out,
                   anchor_args, anchors_out, gt_args, gt_out, iic>>

\* anchor_sizes(n_layers)[index] raises IndexError when there is no such
\* entry
CallAnchorBoxes ==
    /\ pc = "start"
    /\ IF anchor_args.index < anchor_args.n_layers
       THEN /\ anchors_out' = anchor_boxes(anchor_args.feature_shape,
                                           anchor_args.image_shape,
                                           anchor_args.index,
                                           anchor_args.n_layers,
                                           anchor_args.aspect_ratios)
            /\ pc' = "boxes"
       ELSE /\ anchors_out' = anchors_out
            /\ pc' = "IndexError"
    /\ UNCHANGED <<boxes, converted, restored, boxes1, boxes2, iou_out,
                   anchor_args, sizes_out, gt_args, gt_out, iic>>

NextAnchor == CallAnchorSizes \/ CallAnchorBoxes

SpecAnchor == InitAnchor /\ [][NextAnchor]_vars

\* the step 0.7 / n_layers and the first size 0.2 + i * 0.7 / n_layers
SizeStep == NFrac(7, 10 * anchor_args.n_layers)
FirstSize(i) == NFrac(2 * anchor_args.n_layers + 7 * i, 10 * anchor_args.n_layers)

\* C6: anchor_sizes(n_layers) returns exactly n_layers pairs [a_i, b_i],
\* a_i = 0.2 + i * 0.7 / n_layers, b_i * b_i = a_i * (a_i + 0.7 / n_layers),
\* a_i < b_i < a_i + 0.7 / n_layers, and the a_i strictly increase.
C6_AnchorSizes ==
    pc = "sizes" =>
        /\ Len(sizes_out) = anchor_args.n_layers
        /\ \A k \in 1..Len(sizes_out) :
              LET a == sizes_out[k][1]
                  b == sizes_out[k][2]
              IN  /\ Len(sizes_out[k]) = 2
                  /\ a = FirstSize(k - 1)
                  /\ NMul(b, b) = NMul(a, NAdd(a, SizeStep))
                  /\ NLess(a, b)
                  /\ NLess(b, NAdd(a, SizeStep))
                  /\ k > 1 => NLess(sizes_out[k - 1][1], a)

\* two layers: [0.2, sqrt(0.11)] and [0.55, sqrt(0.495)]
C6_Witness ==
    /\ pc = "sizes"
    /\ anchor_args.n_layers = 2
    /\ sizes_out[1] = <<NFrac(1, 5), Num(Zero, QInt(1), Q(11, 100))>>
    /\ sizes_out[2] = <<NFrac(11, 20), Num(Zero, QInt(1), Q(99, 200))>>

-----------------------------------------------------------------------------
(* iic.py: the main program, IIC.load_weights, IIC.train with its          *)
(* AccuracyCallback, and IIC.eval, one step per head.                      *)

MaxHeads == 2
MaxEpochs == 2
MaxAccuracy == 3

\* values of --restore-weights and --save-weights
RestoreNames == {None, "", "iic.h5"}
SaveNames == {None, "best.h5"}

\* IIC.__init__ after argparse: self.accuracy = 0, nothing loaded or saved
InitIIC ==
    /\ pc = "main"
    /\ \E ev \in BOOLEAN, tr \in BOOLEAN :
       \E restore \in RestoreNames, save \in SaveNames :
       \E heads \in 1..MaxHeads, epochs \in 0..MaxEpochs :
          iic = [args |-> [eval |-> ev, train |-> tr,
                           restore_weights |-> restore,
                           save_weights |-> save, save_dir |-> "weights",
                           heads |-> heads, epochs |-> epochs],
                 accuracy |-> 0,
                 head |-> 0,          \* loop variable of eval()
                 head_accuracy |-> None,  \* eval()'s local accuracy
                 epoch |-> 0,         \* epochs fitted so far
                 loaded |-> None,     \* path given to load_weights
                 saved |-> <<>>,      \* (path, accuracy) of every save
                 n_evals |-> 0,       \* head evaluations so far
                 seen |-> 0]          \* largest head accuracy so far
    /\ boxes = Idle /\ converted = Idle /\ restored = Idle
    /\ boxes1 = Idle /\ boxes2 = Idle /\ iou_out = Idle
    /\ anchor_args = Idle /\ sizes_out = Idle /\ anchors_out = Idle
    /\ gt_args = Idle /\ gt_out = Idle

IICFrame ==
    UNCHANGED <<boxes, converted, restored, boxes1, boxes2, iou_out,
                anchor_args, sizes_out, anchors_out, gt_args, gt_out>>

\* if args.eval: ... elif args.train: ...
Main ==
    /\ pc = "main"
    /\ pc' = IF iic.args.eval THEN "load_weights"
             ELSE IF iic.args.train THEN "fit" ELSE "done"
    /\ UNCHANGED iic
    /\ IICFrame

\* load_weights that only tests the name for truth
LoadWeightsUnchecked ==
    /\ pc = "load_weights"
    /\ IF iic.args.restore_weights \notin {None, ""}
       THEN iic' = [iic EXCEPT !.loaded = <<"weights", iic.args.restore_weights>>]
       ELSE iic' = iic
    /\ pc' = "eval"
    /\ IICFrame

\* IIC.load_weights, then back in the main program, which goes on to eval()
LoadWeights ==
    /\ pc = "load_weights"
    /\ IF iic.args.restore_weights = None
       THEN /\ pc' = "ValueError"
            /\ iic' = iic
       ELSE /\ IF iic.args.restore_weights # ""
               THEN iic' = [iic EXCEPT
                              !.loaded = <<"weights", iic.args.restore_weights>>]
               ELSE iic' = iic
            /\ pc' = "eval"
    /\ IICFrame

\* fit_generator: one more epoch, at whose end AccuracyCallback calls
\* eval(); or no epoch left
FitEpoch ==
    /\ pc = "fit"
    /\ IF iic.epoch < iic.args.epochs
       THEN /\ iic' = [iic EXCEPT !.epoch = @ + 1]
            /\ pc' = "on_epoch_end"
       ELSE /\ iic' = iic
            /\ pc' = "done"
    /\ IICFrame

\* AccuracyCallback.on_epoch_end: self.iic.eval()
OnEpochEnd ==
    /\ pc = "on_epoch_end"
    /\ pc' = "eval"
    /\ UNCHANGED iic
    /\ IICFrame

\* where eval() returns to
AfterEval == IF iic.args.eval THEN "done" ELSE "fit"

\* one head of eval() that also saves on an equal accuracy
EvalHeadAtLeast ==
    /\ pc = "eval"
    /\ \E accuracy \in 0..MaxAccuracy :
          LET save == accuracy >= iic.accuracy /\ iic.args.save_weights # None
              path == <<iic.args.save_dir, iic.args.save_weights>>
              last == iic.head + 1 = iic.args.heads
          IN  /\ iic' = [iic EXCEPT
                    !.head_accuracy = accuracy,
                    !.accuracy = IF save THEN accuracy ELSE @,
                    !.saved = IF save THEN Append(@, <<path, accuracy>>) ELSE @,
                    !.head = IF last THEN 0 ELSE @ + 1,
                    !.n_evals = @ + 1,
                    !.seen = Max(@, accuracy)]
              /\ pc' = IF last THEN AfterEval ELSE "eval"
    /\ IICFrame

\* one iteration of the loop over the heads in eval(): the head's accuracy
\* is computed and, if it improves on self.accuracy and save_weights is
\* set, recorded and the weights saved
EvalHead ==
    /\ pc = "eval"
    /\ \E accuracy \in 0..MaxAccuracy :
          LET save == accuracy > iic.accuracy /\ iic.args.save_weights # None
              path == <<iic.args.save_dir, iic.args.save_weights>>
              last == iic.head + 1 = iic.args.heads
          IN  /\ iic' = [iic EXCEPT
                    !.head_accuracy = accuracy,
                    !.accuracy = IF save THEN accuracy ELSE @,
                    !.saved = IF save THEN Append(@, <<path, accuracy>>) ELSE @,
                    !.head = IF last THEN 0 ELSE @ + 1,
                    !.n_evals = @ + 1,
                    !.seen = Max(@, accuracy)]
              /\ pc' = IF last THEN AfterEval ELSE "eval"
    /\ IICFrame

NextIIC == Main \/ LoadWeights \/ FitEpoch \/ OnEpochEnd \/ EvalHead

SpecIIC == InitIIC /\ [][NextIIC]_vars

\* C7: with save_weights set, the weights are saved exactly at the head
\* evaluations whose accuracy is strictly greater than self.accuracy, which
\* then becomes that accuracy; self.accuracy starts at 0, never decreases
\* and always equals the largest head accuracy seen so far (or 0).  With
\* save_weights None nothing is ever saved and self.accuracy stays 0.
C7_SaveOnImprovement ==
    /\ [](/\ iic.n_evals = 0 => iic.accuracy = 0 /\ iic.saved = <<>>
          /\ iic.args.save_weights # None => iic.accuracy = iic.seen
          /\ iic.args.save_weights = None =>
                iic.accuracy = 0 /\ iic.saved = <<>>)
    /\ [][/\ iic'.accuracy >= iic.accuracy
          /\ iic'.n_evals = iic.n_evals + 1 =>
                /\ (iic'.saved # iic.saved) <=>
                      (iic.args.save_weights # None
                       /\ iic'.head_accuracy > iic.accuracy)
                /\ iic'.saved # iic.saved =>
                      /\ iic'.accuracy = iic'.head_accuracy
                      /\ iic'.saved = Append(iic.saved,
                            <<<<iic.args.save_dir, iic.args.save_weights>>,
                              iic'.head_accuracy>>)
          /\ iic'.n_evals = iic.n_evals => iic'.saved = iic.saved]_vars

\* training with two heads: the first head of an epoch improved the best
\* accuracy and was saved, the second equalled it and was not saved
C7_Witness ==
    /\ iic.args.train /\ ~iic.args.eval
    /\ iic.args.save_weights = "best.h5"
    /\ iic.args.heads = 2
    /\ iic.n_evals = 2
    /\ iic.head_accuracy = 2
    /\ iic.accuracy = 2
    /\ iic.saved = <<<<<<"weights", "best.h5">>, 2>>>>

\* C8: load_weights raises ValueError when restore_weights is None, without
\* loading anything, and the main program run with --eval then never
\* reaches eval(); with a non-empty restore_weights the weights are loaded
\* from the 'weights' folder before eval() runs.
C8_MustLoadWeights ==
    /\ pc = "ValueError" =>
          /\ iic.args.restore_weights = None
          /\ iic.loaded = None
    /\ (iic.args.eval /\ iic.args.restore_weights = None) =>
          /\ pc \in {"main", "load_weights", "ValueError"}
          /\ iic.n_evals = 0
          /\ iic.loaded = None
    /\ (iic.args.eval /\ iic.args.restore_weights \notin {None, ""}
        /\ (pc = "eval" \/ iic.n_evals > 0)) =>
          iic.loaded = <<"weights", iic.args.restore_weights>>

\* --eval without --restore-weights has ended in the ValueError
C8_Witness ==
    /\ pc = "ValueError"
    /\ iic.args.eval
    /\ iic.args.restore_weights = None
    /\ iic.n_evals = 0

=============================================================================
